---- MODULE Spec2Model ----
(***************************************************************************)
(* tool/wrapper.h of STM32-USBFloppyTracer: the translation of the header   *)
(* by a C toolchain (compiler or binding generator), one step per line.     *)
(*                                                                         *)
(*   line  3   #undef _WIN32                                                *)
(*   line  5   #include <stdint.h>                                          *)
(*   line  6   #include <caps/CapsLibAll.h>                                 *)
(*   line 10   const uint32_t FLAG_LOCK_INDEX  = DI_LOCK_INDEX;             *)
(*   line 11   const uint32_t FLAG_LOCK_DENVAR = DI_LOCK_DENVAR;            *)
(*   line 12   const uint32_t FLAG_LOCK_TYPE   = DI_LOCK_TYPE;              *)
(*                                                                         *)
(* Integers wider than TLC's own are kept as three limbs:                   *)
(*   value = q * 2^32 + hi * 2^16 + lo,  hi, lo \in 0 .. 2^16 - 1,          *)
(* so q = 0 exactly for the values a uint32_t can hold and q = -1 for the   *)
(* negative values of an int.                                               *)
(***************************************************************************)
EXTENDS Integers, FiniteSets

VARIABLES
    platform,     \* target operating system of the build
    cmdDefines,   \* macros the command line of the toolchain defines
    macros,       \* preprocessor macros defined at the current line
    libPresent,   \* <caps/CapsLibAll.h> is on the include path
    libEnum,      \* the enum members that header defines, with their values
    typedefs,     \* type names visible in the translation unit
    enumerators,  \* enumeration constants visible in the translation unit
    decl,         \* file-scope objects declared so far
    exported,     \* the symbols the finished translation hands to the consumer
    pc,           \* the line about to be processed, or "eof", "done", "failed"
    lastRead,     \* the last symbol the consumer read, with the value it saw
    prevBuild     \* the previous build, when the library was changed and rebuilt

vars == <<platform, cmdDefines, macros, libPresent, libEnum, typedefs, enumerators,
          decl, exported, pc, lastRead, prevBuild>>

\* how far the modelled enum values spread around 0 and around 2^32
Span == 1

Half == 2 ^ 16

Platforms == {"windows", "linux"}

Flags == {"FLAG_LOCK_INDEX", "FLAG_LOCK_DENVAR", "FLAG_LOCK_TYPE"}

Members == {"DI_LOCK_INDEX", "DI_LOCK_DENVAR", "DI_LOCK_TYPE"}

\* an identifier that is not declared
Undefined == [def |-> FALSE, ctype |-> "none", q |-> 0, hi |-> 0, lo |-> 0]

\* the enumeration constant of value n, for n within TLC's integers
EnumOfInt(n) ==
    [def |-> TRUE, ctype |-> "enum",
     q |-> IF n < 0 THEN -1 ELSE 0,
     hi |-> (n \div Half) % Half,
     lo |-> n % Half]

\* the enumeration constant of value v + 2^32
Above(v) == [v EXCEPT !.q = @ + 1]

\* the values the wrapped library may give an enum member: around 0
\* (negative ones included) and around 2^32 (2^32 - 1 is the largest uint32_t)
EnumValues ==
    {EnumOfInt(k) : k \in -Span .. Span} \cup {Above(EnumOfInt(k)) : k \in -Span .. Span}

\* the wrong wiring a copy-and-paste slip gives: the last line reads DI_LOCK_INDEX
MemberOfPasted(c) ==
    CASE c = "FLAG_LOCK_INDEX" -> "DI_LOCK_INDEX"
      [] c = "FLAG_LOCK_DENVAR" -> "DI_LOCK_DENVAR"
      [] c = "FLAG_LOCK_TYPE" -> "DI_LOCK_INDEX"

\* the enum member on the right-hand side of each definition
MemberOf(c) ==
    CASE c = "FLAG_LOCK_INDEX" -> "DI_LOCK_INDEX"
      [] c = "FLAG_LOCK_DENVAR" -> "DI_LOCK_DENVAR"
      [] c = "FLAG_LOCK_TYPE" -> "DI_LOCK_TYPE"

\* the line of each definition
LineOf(c) ==
    CASE c = "FLAG_LOCK_INDEX" -> "line10"
      [] c = "FLAG_LOCK_DENVAR" -> "line11"
      [] c = "FLAG_LOCK_TYPE" -> "line12"

\* the line after each definition
NextLine(c) ==
    CASE c = "FLAG_LOCK_INDEX" -> "line11"
      [] c = "FLAG_LOCK_DENVAR" -> "line12"
      [] c = "FLAG_LOCK_TYPE" -> "eof"

\* a retyping that keeps the value as it is
ToUint32Identity(v) == [v EXCEPT !.ctype = "uint32_t"]

\* a conversion to a 16-bit unsigned integer
ToUint32Narrow(v) == [def |-> TRUE, ctype |-> "uint32_t", q |-> 0, hi |-> 0, lo |-> v.lo]

\* a conversion to a signed 32-bit integer
ToUint32Signed(v) ==
    [def |-> TRUE, ctype |-> "uint32_t",
     q |-> IF v.hi >= Half \div 2 THEN -1 ELSE 0, hi |-> v.hi, lo |-> v.lo]

\* the initialisation of a uint32_t from an integer value: the value is
\* reduced modulo 2^32, which drops every multiple of 2^32
ToUint32(v) == [def |-> TRUE, ctype |-> "uint32_t", q |-> 0, hi |-> v.hi, lo |-> v.lo]

\* a declaration that forgets the earlier ones
DeclareAlone(d, c, v) == [x \in Flags |-> IF x = c THEN v ELSE Undefined]

\* the file-scope declarations d with object c added, holding v
Declare(d, c, v) == [d EXCEPT ![c] = v]

\* a missing enum member read as 0
LookupDefault(e, m) == IF e[m].def THEN e[m] ELSE EnumOfInt(0)

\* the identifier m looked up among the visible enumeration constants
Lookup(e, m) == e[m]

NoBuild == [changed |-> "none", libEnum |-> [m \in Members |-> Undefined],
            exported |-> [c \in Flags |-> Undefined]]

NoRead == [name |-> "none", value |-> Undefined]

\* the macros the toolchain itself defines for a target: _WIN32 on Windows
Predefined(os) == IF os = "windows" THEN {"_WIN32"} ELSE {}

Init ==
    /\ platform \in Platforms
    /\ cmdDefines \in SUBSET {"_WIN32"}
    /\ macros = Predefined(platform) \cup cmdDefines
    /\ libPresent \in BOOLEAN
    /\ libEnum \in (IF libPresent
                      THEN [Members -> EnumValues \cup {Undefined}]
                      ELSE {[m \in Members |-> Undefined]})
    /\ typedefs = {}
    /\ enumerators = [m \in Members |-> Undefined]
    /\ decl = [c \in Flags |-> Undefined]
    /\ exported = [c \in Flags |-> Undefined]
    /\ pc = "line3"
    /\ lastRead = NoRead
    /\ prevBuild = NoBuild

\* line 3 left out
UndefWin32Skipped ==
    /\ pc = "line3"
    /\ macros' = macros
    /\ pc' = "line5"
    /\ UNCHANGED <<platform, cmdDefines, libPresent, libEnum, typedefs, enumerators,
                   decl, exported, lastRead, prevBuild>>

\* line 3 under a guard that holds on Windows only
UndefWin32OnWindowsOnly ==
    /\ pc = "line3"
    /\ macros' = IF platform = "windows" THEN macros \ {"_WIN32"} ELSE macros
    /\ pc' = "line5"
    /\ UNCHANGED <<platform, cmdDefines, libPresent, libEnum, typedefs, enumerators,
                   decl, exported, lastRead, prevBuild>>

\* line 3: #undef _WIN32
UndefWin32 ==
    /\ pc = "line3"
    /\ macros' = macros \ {"_WIN32"}
    /\ pc' = "line5"
    /\ UNCHANGED <<platform, cmdDefines, libPresent, libEnum, typedefs, enumerators,
                   decl, exported, lastRead, prevBuild>>

\* line 5: #include <stdint.h>
IncludeStdint ==
    /\ pc = "line5"
    /\ typedefs' = typedefs \cup {"uint32_t"}
    /\ pc' = "line6"
    /\ UNCHANGED <<platform, cmdDefines, macros, libPresent, libEnum, enumerators,
                   decl, exported, lastRead, prevBuild>>

\* line 6: #include <caps/CapsLibAll.h>
IncludeCaps ==
    /\ pc = "line6"
    /\ IF libPresent
         THEN /\ enumerators' = libEnum
              /\ pc' = "line10"
         ELSE /\ enumerators' = enumerators
              /\ pc' = "failed"
    /\ UNCHANGED <<platform, cmdDefines, macros, libPresent, libEnum, typedefs,
                   decl, exported, lastRead, prevBuild>>

\* lines 10 to 12: const uint32_t c = <enum member>;
DefineConstant(c) ==
    /\ pc = LineOf(c)
    /\ LET v == Lookup(enumerators, MemberOf(c)) IN
         IF "uint32_t" \in typedefs /\ v.def
           THEN /\ decl' = Declare(decl, c, ToUint32(v))
                /\ pc' = NextLine(c)
           ELSE /\ decl' = decl
                /\ pc' = "failed"
    /\ UNCHANGED <<platform, cmdDefines, macros, libPresent, libEnum, typedefs, enumerators,
                   exported, lastRead, prevBuild>>

\* end of the header: a translation without errors yields its symbols
Finish ==
    /\ pc = "eof"
    /\ exported' = decl
    /\ pc' = "done"
    /\ UNCHANGED <<platform, cmdDefines, macros, libPresent, libEnum, typedefs, enumerators,
                   decl, lastRead, prevBuild>>

\* the consumer reads one exported symbol
ConsumerRead(c) ==
    /\ pc = "done"
    /\ lastRead' = [name |-> c, value |-> exported[c]]
    /\ UNCHANGED <<platform, cmdDefines, macros, libPresent, libEnum, typedefs, enumerators,
                   decl, exported, pc, prevBuild>>

\* a second build of the same header on the same machine, after the wrapped
\* library was replaced by a version that gives enum member m the value v;
\* two builds are compared, so a behaviour holds one such step
Rebuild(m, v) ==
    /\ pc = "done"
    /\ prevBuild = NoBuild
    /\ v # libEnum[m]
    /\ prevBuild' = [changed |-> m, libEnum |-> libEnum, exported |-> exported]
    /\ libEnum' = [libEnum EXCEPT ![m] = v]
    /\ macros' = Predefined(platform) \cup cmdDefines
    /\ typedefs' = {}
    /\ enumerators' = [x \in Members |-> Undefined]
    /\ decl' = [c \in Flags |-> Undefined]
    /\ exported' = [c \in Flags |-> Undefined]
    /\ pc' = "line3"
    /\ lastRead' = NoRead
    /\ UNCHANGED <<platform, cmdDefines, libPresent>>

Translate ==
    \/ UndefWin32
    \/ IncludeStdint
    \/ IncludeCaps
    \/ \E c \in Flags : DefineConstant(c)
    \/ Finish

Next ==
    \/ Translate
    \/ \E c \in Flags : ConsumerRead(c)

Spec == Init /\ [][Next]_vars

\* the toolchain runs the translation to its end
FairSpec == Spec /\ WF_vars(Translate)

NextRebuild ==
    \/ Next
    \/ \E m \in Members, v \in EnumValues : Rebuild(m, v)

SpecRebuild == Init /\ [][NextRebuild]_vars

(***************************************************************************)
(* The properties of the header.                                           *)
(***************************************************************************)

\* the enum member each exported constant is named after
EnumMemberFor(c) ==
    CASE c = "FLAG_LOCK_INDEX" -> "DI_LOCK_INDEX"
      [] c = "FLAG_LOCK_DENVAR" -> "DI_LOCK_DENVAR"
      [] c = "FLAG_LOCK_TYPE" -> "DI_LOCK_TYPE"

\* a and b are the same number
NumEq(a, b) == a.q = b.q /\ a.hi = b.hi /\ a.lo = b.lo

\* a and b differ by a multiple of 2^32
Congruent(a, b) == a.hi = b.hi /\ a.lo = b.lo

\* v lies in 0 .. 2^32 - 1
FitsUint32(v) == v.q = 0 /\ v.hi \in 0 .. Half - 1 /\ v.lo \in 0 .. Half - 1

\* x is an object of type uint32_t holding a value of that type
IsUint32(x) == x.ctype = "uint32_t" /\ FitsUint32(x)

\* the wrapped library's header is there and defines the three members
LibComplete == libPresent /\ \A m \in Members : libEnum[m].def

AllExported == \A c \in Flags : exported[c].def

NoneExported == \A c \in Flags : ~exported[c].def

\* C1 as stated: whatever values the wrapped library gives its enum members,
\* each exported constant equals the enum member it is named after.
C1_EqualsEnumForEveryValue ==
    pc = "done" =>
        \A c \in Flags : NumEq(exported[c], libEnum[EnumMemberFor(c)])

\* C1 as amended: each exported constant equals the enum member it is named
\* after whenever that member's value lies in 0 .. 2^32 - 1.
C1_EqualsEnumWithinUint32 ==
    pc = "done" =>
        \A c \in Flags :
            FitsUint32(libEnum[EnumMemberFor(c)])
                => NumEq(exported[c], libEnum[EnumMemberFor(c)])

\* a finished build whose three enum members all fit, one of them 2^32 - 1
C1_Witness ==
    /\ pc = "done"
    /\ AllExported
    /\ \A c \in Flags : FitsUint32(libEnum[EnumMemberFor(c)])
    /\ \E c \in Flags : exported[c].hi = Half - 1 /\ exported[c].lo = Half - 1

\* C2: every exported symbol, wherever it is held (declared, exported, read
\* by the consumer), has type uint32_t, not an enumerated type, and a value
\* in 0 .. 2^32 - 1.
C2_PlainUint32 ==
    /\ \A c \in Flags : decl[c].def => IsUint32(decl[c])
    /\ \A c \in Flags : exported[c].def => IsUint32(exported[c])
    /\ lastRead.name # "none" => IsUint32(lastRead.value)

\* the consumer has read a constant whose enum member is negative or too wide
C2_Witness ==
    /\ pc = "done"
    /\ lastRead.name \in Flags
    /\ libEnum[EnumMemberFor(lastRead.name)].ctype = "enum"
    /\ ~FitsUint32(libEnum[EnumMemberFor(lastRead.name)])

\* C3: a constant, once declared or exported, keeps its value in every later
\* step, and once the header is processed no step changes anything of it: a
\* read changes only what the consumer holds.
C3_NeverMutated ==
    [][/\ \A c \in Flags : decl[c].def => decl'[c] = decl[c]
       /\ \A c \in Flags : exported[c].def => exported'[c] = exported[c]
       /\ pc = "done" => UNCHANGED <<macros, typedefs, enumerators, decl, exported, pc>>]_vars

\* the three constants are exported and the consumer has read the last one
C3_Witness ==
    /\ pc = "done"
    /\ AllExported
    /\ lastRead.name = "FLAG_LOCK_TYPE"
    /\ lastRead.value = exported["FLAG_LOCK_TYPE"]

\* C4: on Windows, _WIN32 is not defined at the point where the wrapped
\* library's header is included.
C4_UndefinedAtIncludeOnWindows ==
    (platform = "windows" /\ pc = "line6") => "_WIN32" \notin macros

\* a Windows build about to include the library header
C4_Witness ==
    /\ platform = "windows"
    /\ "_WIN32" \in Predefined(platform)
    /\ pc = "line6"
    /\ "_WIN32" \notin macros

C6_ExactlyOneChanges ==
    (pc = "done" /\ prevBuild.changed # "none") =>
        \A c \in Flags :
            (exported[c] # prevBuild.exported[c]) <=> (EnumMemberFor(c) = prevBuild.changed)

\* C6 as amended: after one enum member was given another value, the two
\* constants named after the other members have not changed, and the constant
\* named after it has changed exactly when the old and the new value differ
\* modulo 2^32.
C6_OnlyOwnMemberDecides ==
    (pc = "done" /\ prevBuild.changed # "none") =>
        \A c \in Flags :
            IF EnumMemberFor(c) = prevBuild.changed
              THEN (exported[c] # prevBuild.exported[c])
                       <=> ~Congruent(libEnum[EnumMemberFor(c)],
                                      prevBuild.libEnum[EnumMemberFor(c)])
              ELSE exported[c] = prevBuild.exported[c]

\* a rebuild after DI_LOCK_INDEX changed: its constant differs, the others do not
C6_Witness ==
    /\ pc = "done"
    /\ prevBuild.changed = "DI_LOCK_INDEX"
    /\ exported["FLAG_LOCK_INDEX"] # prevBuild.exported["FLAG_LOCK_INDEX"]
    /\ exported["FLAG_LOCK_DENVAR"] = prevBuild.exported["FLAG_LOCK_DENVAR"]
    /\ exported["FLAG_LOCK_DENVAR"] # exported["FLAG_LOCK_INDEX"]

\* C7: a declared constant is its enum member's value reduced modulo 2^32: it
\* lies in 0 .. 2^32 - 1 and differs from the member by a multiple of 2^32, so
\* it equals the member exactly when the member lies in 0 .. 2^32 - 1; and no
\* value of a member makes processing fail.
C7_ReducedModulo ==
    /\ \A c \in Flags :
          decl[c].def =>
              LET v == libEnum[EnumMemberFor(c)] IN
                  /\ FitsUint32(decl[c])
                  /\ Congruent(decl[c], v)
                  /\ NumEq(decl[c], v) <=> FitsUint32(v)
    /\ LibComplete => pc # "failed"

\* a finished build that exports a number other than its enum member, once
\* for a negative member and once for a member of 2^32 or more
C7_Witness ==
    /\ pc = "done"
    /\ \E c \in Flags :
          /\ libEnum[EnumMemberFor(c)].q < 0
          /\ ~NumEq(exported[c], libEnum[EnumMemberFor(c)])
    /\ \E c \in Flags :
          /\ libEnum[EnumMemberFor(c)].q > 0
          /\ ~NumEq(exported[c], libEnum[EnumMemberFor(c)])

\* C8: on every platform, whether or not _WIN32 was defined at the start,
\* _WIN32 is undefined from line 3 on: when the library header is included
\* and at every later point of the header.
C8_UndefinedOnEveryPlatform ==
    pc # "line3" => "_WIN32" \notin macros

\* a build for another platform with _WIN32 defined on the command line,
\* past the inclusion of the library header
C8_Witness ==
    /\ platform # "windows"
    /\ "_WIN32" \in cmdDefines
    /\ pc = "line10"
    /\ "_WIN32" \notin macros

====
